---- MODULE Spec2Model ----
(***************************************************************************)
(* Session state machine of the "Second" meeting recorder front end:       *)
(* the shared store (appState), the recording page (one component          *)
(* instance per mount, each with its own local state and its own pending   *)
(* async handlers), the always-mounted speaker labeling modal and the      *)
(* sidecar, which answers every request with a result or an error at a     *)
(* time of its own choosing.                                               *)
(***************************************************************************)
EXTENDS Integers, Sequences, FiniteSets, TLC

\* ------------------------------------------------------------------ bounds
MaxInst == 2        \* recording page instances (mounts) in one run
MaxTasks == 3       \* async handler invocations (start / stop) in one run
MaxDuration == 1    \* cap of recordingDuration (seconds counted)
MaxSegs == 2        \* longest segment list a response carries
MaxDerivSegs == 4   \* longest diarized segment list speakers are derived from

\* ------------------------------------------------------------ value domains
Pages == {"recording", "summaries", "settings"}
ProcessingStates ==
  {"idle", "recording", "diarizing", "labeling", "summarizing", "complete"}
Inst == 1..MaxInst
Tasks == 1..MaxTasks
NoTask == 0
ErrMsgs == {"sidecar error"}
TimeoutMsg == "request timed out"
AudioPaths == {"", "rec.wav"}
Labels == {"SPEAKER_00", "SPEAKER_01"}
NoSpeaker == "undefined"
\* An optional field of a response: absent, or present with a value.
Absent == <<>>
Some(x) == <<x>>
Present(o) == Len(o) = 1
NullMeeting == [id |-> 0, status |-> "null", audioPath |-> "undefined"]
Providers == {"claude", "openai", "gemini", "ollama"}
ApiKeys == {"", "sk-1"}
DefaultSettings == [llmProvider |-> "claude", apiKey |-> ""]
NoResponse == [segments |-> Absent, speakers |-> Absent, audio_path |-> "none"]
NoPayload == [audio_path |-> "none", transcript |-> "none"]

VARIABLES
  currentPage, sidecarConnected, isRecording, recordingDuration,
  processingState, currentMeeting, transcript, detectedSpeakers,
  showLabelingModal,
  nInst, alive, timerInterval, labelingInterval, errorMessage, isStarting,
  speakerNames,
  nTasks, pc, owner, timerLive, waitLive,
  settings, stopped,
  sent, payload, received, op,
  align, vad,
  searchQuery, selectedSpeakerId, selectedSummaryId, speakerList, summaries,
  summaryDetail, loading, detailLoading, searchDebounceTimer, nCalls, calls

storeVars == <<currentPage, sidecarConnected, isRecording, recordingDuration,
               processingState, currentMeeting, transcript, detectedSpeakers,
               showLabelingModal>>
pageVars == <<nInst, alive, timerInterval, labelingInterval, errorMessage,
              isStarting>>
taskVars == <<nTasks, pc, owner, timerLive, waitLive>>
\* settings: appState.settings (the provider and the API key);
\* stopped: the sessions (by meeting id) on which stop has been triggered;
\* sent: the request the last step sent ("none" when it sent none);
\* payload: the audio_path or transcript that request carries;
\* received: the stop_recording, get_transcript or diarize response the last
\* step handled (NoResponse when it handled none);
\* op: the handler or callback the last step ran;
\* align: the aligner's input and result; vad: the voice activity gate.
workerVars == <<align, vad>>
\* The summaries page: its $state locals (speakerList is its `speakers`,
\* a name the diarize response's field already has here), the pending debounce timer of the
\* search effect (the query it captured) and the calls of its load functions
\* (nCalls of them made so far).
summariesVars == <<searchQuery, selectedSpeakerId, selectedSummaryId,
                   speakerList, summaries, summaryDetail, loading,
                   detailLoading, searchDebounceTimer, nCalls, calls>>
vars == <<storeVars, pageVars, speakerNames, taskVars, settings, stopped,
          sent, payload, received, op, workerVars, summariesVars>>

canStartRecording(i) ==
  /\ ~isRecording
  /\ processingState = "idle"
  /\ ~isStarting[i]

\* clearInterval(handle): a null handle or a handle of a cleared interval
\* changes nothing.
ClearInterval(live, handle) == live \ {handle}

\* --------------------------------------------------------- transcript data
Texts == {"t1", "t2"}
ExcerptLimit == 3
SegmentOf(text, speaker) == [text |-> text, speaker |-> speaker]

\* JavaScript truthiness of an optional string.
Truthy(s) == s \notin {NoSpeaker, "", "null"}

\* Array.prototype.filter
RECURSIVE Filter(_, _)
Filter(seq, label) ==
  IF seq = <<>> THEN <<>>
  ELSE IF Head(seq).speaker = label
         THEN <<Head(seq)>> \o Filter(Tail(seq), label)
         ELSE Filter(Tail(seq), label)

\* The excerpts without their limit.
SliceAll(seq, n) == seq

\* slice(0, n)
Slice(seq, n) == SubSeq(seq, 1, IF Len(seq) < n THEN Len(seq) ELSE n)

\* The insertion order of new Set(): every truthy speaker label of the
\* transcript once, in order of first appearance.
RECURSIVE SpeakerLabels(_, _)
SpeakerLabels(tr, seen) ==
  IF tr = <<>> THEN <<>>
  ELSE IF Truthy(Head(tr).speaker) /\ Head(tr).speaker \notin seen
         THEN <<Head(tr).speaker>>
                \o SpeakerLabels(Tail(tr), seen \cup {Head(tr).speaker})
         ELSE SpeakerLabels(Tail(tr), seen)

Excerpts(tr, label) ==
  LET own == Slice(Filter(tr, label), ExcerptLimit)
  IN [k \in 1..Len(own) |-> own[k].text]

\* detectedSpeakers built from the transcript when the response has none.
SpeakersFromTranscript(tr) ==
  LET labels == SpeakerLabels(tr, {})
  IN [k \in 1..Len(labels) |->
        [label |-> labels[k], suggestedName |-> "null", confidence |-> 0,
         excerpts |-> Excerpts(tr, labels[k])]]

DetectedLabels(ds) == {ds[k].label : k \in 1..Len(ds)}

\* The modal's $effect: speakerNames rebuilt from detectedSpeakers (a later
\* entry of the same label overwrites an earlier one).
LastIndexOf(ds, label) ==
  CHOOSE k \in 1..Len(ds) :
    /\ ds[k].label = label
    /\ \A j \in (k + 1)..Len(ds) : ds[j].label # label

InitialNames(ds) ==
  [l \in DetectedLabels(ds) |->
     LET sn == ds[LastIndexOf(ds, l)].suggestedName
     IN IF sn = "null" THEN "" ELSE sn]

\* displayLabel(speaker, index) of the modal: `Speaker ${index + 1}` with a
\* 0-based index; sequences are 1-based here, so entry k shows "Speaker k".
displayLabel(k) == "Speaker " \o ToString(k)

\* A slip in the ordinal: the 0-based loop index used as it is.
labelToGenericZeroBased(ds) ==
  [l \in DetectedLabels(ds) |->
     "Speaker " \o ToString(LastIndexOf(ds, l) - 1)]

\* The lookup handleSkip builds in its loop: `Speaker ${i + 1}` for entry i
\* (0-based), a later entry of the same label overwriting an earlier one.
labelToGeneric(ds) ==
  [l \in DetectedLabels(ds) |-> "Speaker " \o ToString(LastIndexOf(ds, l))]

\* String.prototype.trim on the names a user can type.
UserInputs == {"", " ", "Ann", " Bob "}
trim(s) ==
  CASE s = " " -> ""
    [] s = " Bob " -> "Bob"
    [] OTHER -> s

\* every() alone: true of an empty list.
allLabeledVacuous ==
  \A k \in 1..Len(detectedSpeakers) :
    LET l == detectedSpeakers[k].label
    IN trim(IF l \in DOMAIN speakerNames THEN speakerNames[l] ELSE "") # ""
allLabeled ==
  /\ Len(detectedSpeakers) > 0
  /\ \A k \in 1..Len(detectedSpeakers) :
       LET l == detectedSpeakers[k].label
       IN trim(IF l \in DOMAIN speakerNames THEN speakerNames[l] ELSE "") # ""

\* The transcript.map of handleConfirm.
ConfirmRewrite(tr, names) ==
  [k \in 1..Len(tr) |->
     LET sp == tr[k].speaker
     IN [tr[k] EXCEPT !.speaker =
           IF Truthy(sp) /\ sp \in DOMAIN names /\ Truthy(names[sp])
             THEN trim(names[sp]) ELSE sp]]

\* The transcript.map of handleSkip.
SkipRewrite(tr, ds) ==
  LET generic == labelToGeneric(ds)
  IN [k \in 1..Len(tr) |->
        LET sp == tr[k].speaker
        IN [tr[k] EXCEPT !.speaker =
              IF Truthy(sp) /\ sp \in DOMAIN generic
                THEN generic[sp] ELSE sp]]

\* The transcript text handleStopRecording builds for summarize: one line
\* per segment, "speaker: text" or the text alone, joined by newlines.
Line(seg) ==
  IF Truthy(seg.speaker) THEN seg.speaker \o ": " \o seg.text ELSE seg.text
RECURSIVE Join(_, _)
Join(strs, sep) ==
  IF strs = <<>> THEN ""
  ELSE IF Len(strs) = 1 THEN strs[1]
  ELSE strs[1] \o sep \o Join(Tail(strs), sep)
fullTranscript(tr) == Join([k \in 1..Len(tr) |-> Line(tr[k])], "\n")

\* The summaries page's domains. 0 stands for null in the two selections.
MaxCalls == 5       \* calls of the summaries page's load functions in one run
CallIds == 1..MaxCalls
SpeakerIds == {1, 2}
SummaryIds == {1, 2}
NoSelection == 0
Queries == {"", " ", "a", "b"}
NoTimer == "null"
NullDetail == [id |-> 0]
\* A call of a load function: the text (arg) or the summary id (id) its
\* request carries.
FreeCall == [fn |-> "none", arg |-> "none", id |-> 0, state |-> "free"]
\* The page's state before it is mounted.
SummariesUnmounted ==
  /\ searchQuery = ""
  /\ selectedSpeakerId = NoSelection
  /\ selectedSummaryId = NoSelection
  /\ speakerList = <<>>
  /\ summaries = <<>>
  /\ summaryDetail = NullDetail
  /\ loading = FALSE
  /\ detailLoading = FALSE
  /\ searchDebounceTimer = NoTimer
  /\ nCalls = 0
  /\ calls = [c \in CallIds |-> FreeCall]

NoAlignment ==
  [segment |-> [start |-> 0, end |-> 0], intervals |-> <<>>,
   result |-> "unset"]
VadInit ==
  [windows |-> <<>>, open |-> FALSE, speechRun |-> 0, silenceRun |-> 0,
   start |-> 0, chunks |-> <<>>]

Init ==
  /\ currentPage = "recording"
  /\ sidecarConnected = FALSE
  /\ isRecording = FALSE
  /\ recordingDuration = 0
  /\ processingState = "idle"
  /\ currentMeeting = NullMeeting
  /\ transcript = <<>>
  /\ detectedSpeakers = <<>>
  /\ showLabelingModal = FALSE
  /\ nInst = 1
  /\ alive = [i \in Inst |-> TRUE]
  /\ timerInterval = [i \in Inst |-> NoTask]
  /\ labelingInterval = [i \in Inst |-> NoTask]
  /\ errorMessage = [i \in Inst |-> ""]
  /\ isStarting = [i \in Inst |-> FALSE]
  /\ speakerNames = [l \in {} |-> ""]
  /\ nTasks = 0
  /\ pc = [t \in Tasks |-> "free"]
  /\ owner = [t \in Tasks |-> 0]
  /\ timerLive = {}
  /\ waitLive = {}
  /\ settings = DefaultSettings
  /\ stopped = {}
  /\ sent = "none"
  /\ payload = NoPayload
  /\ received = NoResponse
  /\ align = NoAlignment
  /\ vad = VadInit
  /\ SummariesUnmounted
  /\ op = "init"

\* ------------------------------------------------------------- navigation
\* App.svelte navigateTo: leaving the recording page destroys its instance
\* (the cleanup $effect runs); coming back constructs a new one.
NavigateTo(page) ==
  /\ op' = "NavigateTo"
  /\ payload' = NoPayload
  /\ UNCHANGED <<workerVars, summariesVars>>
  /\ received' = NoResponse
  /\ UNCHANGED <<settings, stopped>>
  /\ page \in Pages
  /\ page # currentPage
  /\ (page = "recording") => nInst < MaxInst
  /\ currentPage' = page
  /\ IF currentPage = "recording"
       THEN /\ alive' = [alive EXCEPT ![nInst] = FALSE]
            /\ timerLive' = ClearInterval(timerLive, timerInterval[nInst])
            /\ waitLive' = ClearInterval(waitLive, labelingInterval[nInst])
            /\ nInst' = nInst
       ELSE /\ nInst' = IF page = "recording" THEN nInst + 1 ELSE nInst
            /\ UNCHANGED <<alive, timerLive, waitLive>>
  /\ sent' = "none"
  /\ UNCHANGED <<sidecarConnected, isRecording, recordingDuration,
                 processingState, currentMeeting, transcript,
                 detectedSpeakers, showLabelingModal, timerInterval,
                 labelingInterval, errorMessage, isStarting, speakerNames,
                 nTasks, pc, owner>>

\* --------------------------------------------------------- start recording
\* handleStartRecording up to its first await.
HandleStartRecording ==
  /\ op' = "HandleStartRecording"
  /\ payload' = NoPayload
  /\ UNCHANGED <<workerVars, summariesVars>>
  /\ received' = NoResponse
  /\ UNCHANGED <<settings, stopped>>
  /\ currentPage = "recording"
  /\ canStartRecording(nInst)
  /\ nTasks < MaxTasks
  /\ LET i == nInst
         t == nTasks + 1
     IN /\ errorMessage' = [errorMessage EXCEPT ![i] = ""]
        /\ isStarting' = [isStarting EXCEPT ![i] = TRUE]
        /\ nTasks' = t
        /\ owner' = [owner EXCEPT ![t] = i]
        /\ IF ~sidecarConnected
             THEN /\ pc' = [pc EXCEPT ![t] = "await_startSidecar"]
                  /\ sent' = "start_sidecar"
             ELSE /\ pc' = [pc EXCEPT ![t] = "await_start_recording"]
                  /\ sent' = "start_recording"
  /\ UNCHANGED <<storeVars, nInst, alive, timerInterval, labelingInterval,
                 speakerNames, timerLive, waitLive>>

\* startSidecar() resolved: the handler goes on to send start_recording.
StartSidecarOk(t) ==
  /\ op' = "StartSidecarOk"
  /\ payload' = NoPayload
  /\ UNCHANGED <<workerVars, summariesVars>>
  /\ received' = NoResponse
  /\ UNCHANGED <<settings, stopped>>
  /\ pc[t] = "await_startSidecar"
  /\ sidecarConnected' = TRUE
  /\ pc' = [pc EXCEPT ![t] = "await_start_recording"]
  /\ sent' = "start_recording"
  /\ UNCHANGED <<currentPage, isRecording, recordingDuration, processingState,
                 currentMeeting, transcript, detectedSpeakers,
                 showLabelingModal, pageVars, speakerNames, nTasks, owner,
                 timerLive, waitLive>>

\* A catch block that resets the state but drops the message.
StartFailSilent(t, msg) ==
  /\ op' = "StartFail"
  /\ payload' = NoPayload
  /\ UNCHANGED <<workerVars, summariesVars>>
  /\ received' = NoResponse
  /\ UNCHANGED <<settings, stopped>>
  /\ pc[t] \in {"await_startSidecar", "await_start_recording"}
  /\ msg \in ErrMsgs
  /\ isRecording' = FALSE
  /\ processingState' = "idle"
  /\ sidecarConnected' = FALSE
  /\ isStarting' = [isStarting EXCEPT ![owner[t]] = FALSE]
  /\ pc' = [pc EXCEPT ![t] = "done"]
  /\ sent' = "none"
  /\ UNCHANGED <<currentPage, recordingDuration, currentMeeting, transcript,
                 detectedSpeakers, showLabelingModal, nInst, alive,
                 timerInterval, labelingInterval, errorMessage, speakerNames,
                 nTasks, owner,
                 timerLive, waitLive>>

\* The catch and finally blocks of handleStartRecording.
StartFail(t, msg) ==
  /\ op' = "StartFail"
  /\ payload' = NoPayload
  /\ UNCHANGED <<workerVars, summariesVars>>
  /\ received' = NoResponse
  /\ UNCHANGED <<settings, stopped>>
  /\ pc[t] \in {"await_startSidecar", "await_start_recording"}
  /\ msg \in ErrMsgs
  /\ errorMessage' = [errorMessage EXCEPT ![owner[t]] = msg]
  /\ isRecording' = FALSE
  /\ processingState' = "idle"
  /\ sidecarConnected' = FALSE
  /\ isStarting' = [isStarting EXCEPT ![owner[t]] = FALSE]
  /\ pc' = [pc EXCEPT ![t] = "done"]
  /\ sent' = "none"
  /\ UNCHANGED <<currentPage, recordingDuration, currentMeeting, transcript,
                 detectedSpeakers, showLabelingModal, nInst, alive,
                 timerInterval, labelingInterval, speakerNames, nTasks, owner,
                 timerLive, waitLive>>

\* start_recording resolved: the state update, the timer, the first turn of
\* pollTranscript up to its await, then the finally block.
StartRecordingOk(t) ==
  /\ op' = "StartRecordingOk"
  /\ payload' = NoPayload
  /\ UNCHANGED <<workerVars, summariesVars>>
  /\ received' = NoResponse
  /\ UNCHANGED <<settings, stopped>>
  /\ pc[t] = "await_start_recording"
  /\ LET i == owner[t]
     IN /\ isRecording' = TRUE
        /\ recordingDuration' = 0
        /\ transcript' = <<>>
        /\ processingState' = "recording"
        /\ currentMeeting' =
             [id |-> t, status |-> "recording", audioPath |-> "undefined"]
        /\ timerInterval' = [timerInterval EXCEPT ![i] = t]
        /\ timerLive' = timerLive \cup {t}
        /\ IF alive[i]
             THEN /\ pc' = [pc EXCEPT ![t] = "poll_await"]
                  /\ sent' = "get_transcript"
             ELSE /\ pc' = [pc EXCEPT ![t] = "done"]
                  /\ sent' = "none"
        /\ isStarting' = [isStarting EXCEPT ![i] = FALSE]
  /\ UNCHANGED <<currentPage, sidecarConnected, detectedSpeakers,
                 showLabelingModal, nInst, alive, labelingInterval,
                 errorMessage, speakerNames, nTasks, owner, waitLive>>

\* ------------------------------------------------------ transcript polling
\* A poll handler that takes every segment list the response carries.
PollResponseAlways(t, segments) ==
  /\ op' = "PollResponse"
  /\ payload' = NoPayload
  /\ UNCHANGED <<workerVars, summariesVars>>
  /\ received' = [NoResponse EXCEPT !.segments = segments]
  /\ UNCHANGED <<settings, stopped>>
  /\ pc[t] = "poll_await"
  /\ transcript' = IF Present(segments) THEN segments[1] ELSE transcript
  /\ pc' = [pc EXCEPT ![t] = "poll_sleep"]
  /\ sent' = "none"
  /\ UNCHANGED <<currentPage, sidecarConnected, isRecording,
                 recordingDuration, processingState, currentMeeting,
                 detectedSpeakers, showLabelingModal, pageVars, speakerNames,
                 nTasks, owner, timerLive, waitLive>>

\* pollTranscript after its await: a response with a longer segment list
\* replaces the transcript, an error is ignored; then the 1 s sleep.
PollResponse(t, segments) ==
  /\ op' = "PollResponse"
  /\ payload' = NoPayload
  /\ UNCHANGED <<workerVars, summariesVars>>
  /\ received' = [NoResponse EXCEPT !.segments = segments]
  /\ UNCHANGED <<settings, stopped>>
  /\ pc[t] = "poll_await"
  /\ transcript' =
       IF Present(segments) /\ Len(segments[1]) > Len(transcript)
         THEN segments[1] ELSE transcript
  /\ pc' = [pc EXCEPT ![t] = "poll_sleep"]
  /\ sent' = "none"
  /\ UNCHANGED <<currentPage, sidecarConnected, isRecording,
                 recordingDuration, processingState, currentMeeting,
                 detectedSpeakers, showLabelingModal, pageVars, speakerNames,
                 nTasks, owner, timerLive, waitLive>>

\* The sleep is over: the loop condition, and the next request if it holds.
PollWake(t) ==
  /\ op' = "PollWake"
  /\ payload' = NoPayload
  /\ UNCHANGED <<workerVars, summariesVars>>
  /\ received' = NoResponse
  /\ UNCHANGED <<settings, stopped>>
  /\ pc[t] = "poll_sleep"
  /\ IF isRecording /\ alive[owner[t]]
       THEN /\ pc' = [pc EXCEPT ![t] = "poll_await"]
            /\ sent' = "get_transcript"
       ELSE /\ pc' = [pc EXCEPT ![t] = "done"]
            /\ sent' = "none"
  /\ UNCHANGED <<storeVars, pageVars, speakerNames, nTasks, owner, timerLive,
                 waitLive>>

\* The setInterval callback of handleStartRecording.
TimerTick(t) ==
  /\ op' = "TimerTick"
  /\ payload' = NoPayload
  /\ UNCHANGED <<workerVars, summariesVars>>
  /\ received' = NoResponse
  /\ UNCHANGED <<settings, stopped>>
  /\ t \in timerLive
  /\ recordingDuration < MaxDuration
  /\ recordingDuration' = recordingDuration + 1
  /\ sent' = "none"
  /\ UNCHANGED <<currentPage, sidecarConnected, isRecording, processingState,
                 currentMeeting, transcript, detectedSpeakers,
                 showLabelingModal, pageVars, speakerNames, taskVars>>

\* ---------------------------------------------------------- stop pipeline
\* The Stop Recording button is rendered when canStartRecording is false and
\* isRecording is true; handleStopRecording up to its first await.
HandleStopRecording ==
  /\ op' = "HandleStopRecording"
  /\ payload' = NoPayload
  /\ UNCHANGED <<workerVars, summariesVars>>
  /\ received' = NoResponse
  /\ UNCHANGED settings
  /\ currentPage = "recording"
  /\ ~canStartRecording(nInst)
  /\ isRecording
  /\ nTasks < MaxTasks
  /\ LET i == nInst
         t == nTasks + 1
     IN /\ errorMessage' = [errorMessage EXCEPT ![i] = ""]
        /\ timerLive' = ClearInterval(timerLive, timerInterval[i])
        /\ timerInterval' = [timerInterval EXCEPT ![i] = NoTask]
        /\ isRecording' = FALSE
        /\ nTasks' = t
        /\ owner' = [owner EXCEPT ![t] = i]
        /\ pc' = [pc EXCEPT ![t] = "await_stop_recording"]
        /\ sent' = "stop_recording"
        /\ stopped' = IF currentMeeting # NullMeeting
                         THEN stopped \cup {currentMeeting.id} ELSE stopped
  /\ UNCHANGED <<currentPage, sidecarConnected, recordingDuration,
                 processingState, currentMeeting, transcript,
                 detectedSpeakers, showLabelingModal, nInst, alive,
                 labelingInterval, isStarting, speakerNames, waitLive>>

\* A handler that passes the path the meeting held before the response.
StopRecordingOkStalePath(t, audioPath) ==
  /\ op' = "StopRecordingOk"
  /\ payload' = [NoPayload EXCEPT !.audio_path = currentMeeting.audioPath]
  /\ UNCHANGED <<workerVars, summariesVars>>
  /\ received' = [NoResponse EXCEPT !.audio_path = audioPath]
  /\ UNCHANGED <<settings, stopped>>
  /\ pc[t] = "await_stop_recording"
  /\ audioPath \in AudioPaths
  /\ currentMeeting' =
       IF currentMeeting # NullMeeting
         THEN [currentMeeting EXCEPT !.status = "processing",
                                     !.audioPath = audioPath]
         ELSE currentMeeting
  /\ processingState' = "diarizing"
  /\ pc' = [pc EXCEPT ![t] = "await_diarize"]
  /\ sent' = "diarize"
  /\ UNCHANGED <<currentPage, sidecarConnected, isRecording,
                 recordingDuration, transcript, detectedSpeakers,
                 showLabelingModal, pageVars, speakerNames, nTasks, owner,
                 timerLive, waitLive>>

\* stop_recording resolved: the meeting update, then the diarize request.
StopRecordingOk(t, audioPath) ==
  /\ op' = "StopRecordingOk"
  /\ payload' = [NoPayload EXCEPT !.audio_path = audioPath]
  /\ UNCHANGED <<workerVars, summariesVars>>
  /\ received' = [NoResponse EXCEPT !.audio_path = audioPath]
  /\ UNCHANGED <<settings, stopped>>
  /\ pc[t] = "await_stop_recording"
  /\ audioPath \in AudioPaths
  /\ currentMeeting' =
       IF currentMeeting # NullMeeting
         THEN [currentMeeting EXCEPT !.status = "processing",
                                     !.audioPath = audioPath]
         ELSE currentMeeting
  /\ processingState' = "diarizing"
  /\ pc' = [pc EXCEPT ![t] = "await_diarize"]
  /\ sent' = "diarize"
  /\ UNCHANGED <<currentPage, sidecarConnected, isRecording,
                 recordingDuration, transcript, detectedSpeakers,
                 showLabelingModal, pageVars, speakerNames, nTasks, owner,
                 timerLive, waitLive>>

\* diarize resolved: transcript and detected speakers, the labeling modal,
\* the modal's $effect and waitForLabeling's setInterval.
DiarizeOk(t, segments, speakers) ==
  /\ pc[t] = "await_diarize"
  /\ op' = "DiarizeOk"
  /\ payload' = NoPayload
  /\ UNCHANGED <<workerVars, summariesVars>>
  /\ received' = [segments |-> segments, speakers |-> speakers,
                  audio_path |-> "none"]
  /\ UNCHANGED <<settings, stopped>>
  /\ LET tr == IF Present(segments) THEN segments[1] ELSE transcript
         ds == IF Present(speakers) THEN speakers[1]
               ELSE SpeakersFromTranscript(tr)
     IN /\ transcript' = tr
        /\ detectedSpeakers' = ds
        /\ speakerNames' = IF Len(ds) > 0 THEN InitialNames(ds)
                           ELSE speakerNames
  /\ processingState' = "labeling"
  /\ showLabelingModal' = TRUE
  /\ labelingInterval' = [labelingInterval EXCEPT ![owner[t]] = t]
  /\ waitLive' = waitLive \cup {t}
  /\ pc' = [pc EXCEPT ![t] = "wait_labeling"]
  /\ sent' = "none"
  /\ UNCHANGED <<currentPage, sidecarConnected, isRecording,
                 recordingDuration, currentMeeting, nInst, alive,
                 timerInterval, errorMessage, isStarting, nTasks, owner,
                 timerLive>>

\* The setInterval callback of waitForLabeling, once the modal is closed: it
\* clears whatever interval labelingInterval holds, and the resolved promise
\* resumes handleStopRecording up to the summarize request.
LabelingTick(t) ==
  /\ op' = "LabelingTick"
  /\ UNCHANGED <<workerVars, summariesVars>>
  /\ received' = NoResponse
  /\ UNCHANGED <<settings, stopped>>
  /\ t \in waitLive
  /\ ~showLabelingModal
  /\ LET i == owner[t]
     IN /\ pc[t] = "wait_labeling" \/ labelingInterval[i] # NoTask
        /\ waitLive' = ClearInterval(waitLive, labelingInterval[i])
        /\ labelingInterval' = [labelingInterval EXCEPT ![i] = NoTask]
  /\ IF pc[t] = "wait_labeling"
       THEN /\ processingState' = "summarizing"
            /\ pc' = [pc EXCEPT ![t] = "await_summarize"]
            /\ sent' = "summarize"
            /\ payload' = [NoPayload EXCEPT
                             !.transcript = fullTranscript(transcript)]
       ELSE /\ UNCHANGED <<processingState, pc>>
            /\ sent' = "none"
            /\ payload' = NoPayload
  /\ UNCHANGED <<currentPage, sidecarConnected, isRecording,
                 recordingDuration, currentMeeting, transcript,
                 detectedSpeakers, showLabelingModal, nInst, alive,
                 timerInterval, errorMessage, isStarting, speakerNames,
                 nTasks, owner, timerLive>>

\* summarize resolved.
SummarizeOk(t) ==
  /\ op' = "SummarizeOk"
  /\ payload' = NoPayload
  /\ UNCHANGED <<workerVars, summariesVars>>
  /\ received' = NoResponse
  /\ UNCHANGED <<settings, stopped>>
  /\ pc[t] = "await_summarize"
  /\ processingState' = "complete"
  /\ currentMeeting' =
       IF currentMeeting # NullMeeting
         THEN [currentMeeting EXCEPT !.status = "completed"]
         ELSE currentMeeting
  /\ pc' = [pc EXCEPT ![t] = "done"]
  /\ sent' = "none"
  /\ UNCHANGED <<currentPage, sidecarConnected, isRecording,
                 recordingDuration, transcript, detectedSpeakers,
                 showLabelingModal, pageVars, speakerNames, nTasks, owner,
                 timerLive, waitLive>>

\* A catch block that returns to idle but drops the message.
PipelineFailSilent(t, msg) ==
  /\ op' = "PipelineFail"
  /\ payload' = NoPayload
  /\ UNCHANGED <<workerVars, summariesVars>>
  /\ received' = NoResponse
  /\ UNCHANGED <<settings, stopped>>
  /\ pc[t] \in {"await_stop_recording", "await_diarize", "await_summarize"}
  /\ msg \in ErrMsgs
  /\ processingState' = "idle"
  /\ pc' = [pc EXCEPT ![t] = "done"]
  /\ sent' = "none"
  /\ UNCHANGED <<currentPage, sidecarConnected, isRecording,
                 recordingDuration, currentMeeting, transcript,
                 detectedSpeakers, showLabelingModal, nInst, alive,
                 timerInterval, labelingInterval, errorMessage, isStarting,
                 speakerNames,
                 nTasks, owner, timerLive, waitLive>>

\* A catch block that sends the rejected request once more.
PipelineFailRetry(t, msg) ==
  /\ op' = "PipelineFail"
  /\ UNCHANGED <<settings, stopped>>
  /\ payload' = NoPayload
  /\ UNCHANGED <<workerVars, summariesVars>>
  /\ received' = NoResponse
  /\ pc[t] \in {"await_stop_recording", "await_diarize", "await_summarize"}
  /\ msg \in ErrMsgs
  /\ errorMessage' = [errorMessage EXCEPT ![owner[t]] = msg]
  /\ sent' = CASE pc[t] = "await_stop_recording" -> "stop_recording"
                [] pc[t] = "await_diarize" -> "diarize"
                [] OTHER -> "summarize"
  /\ UNCHANGED <<currentPage, sidecarConnected, isRecording,
                 recordingDuration, processingState, currentMeeting,
                 transcript, detectedSpeakers, showLabelingModal, nInst,
                 alive, timerInterval, labelingInterval, isStarting,
                 speakerNames, nTasks, pc, owner, timerLive, waitLive>>

\* The catch block of handleStopRecording: stop_recording, diarize or
\* summarize rejected.
PipelineFail(t, msg) ==
  /\ op' = "PipelineFail"
  /\ payload' = NoPayload
  /\ UNCHANGED <<workerVars, summariesVars>>
  /\ received' = NoResponse
  /\ UNCHANGED <<settings, stopped>>
  /\ pc[t] \in {"await_stop_recording", "await_diarize", "await_summarize"}
  /\ msg \in ErrMsgs
  /\ errorMessage' = [errorMessage EXCEPT ![owner[t]] = msg]
  /\ processingState' = "idle"
  /\ pc' = [pc EXCEPT ![t] = "done"]
  /\ sent' = "none"
  /\ UNCHANGED <<currentPage, sidecarConnected, isRecording,
                 recordingDuration, currentMeeting, transcript,
                 detectedSpeakers, showLabelingModal, nInst, alive,
                 timerInterval, labelingInterval, isStarting, speakerNames,
                 nTasks, owner, timerLive, waitLive>>

\* A request timeout that is armed for diarize requests only.
RequestTimeoutDiarizeOnly(t) ==
  /\ op' = "RequestTimeout"
  /\ UNCHANGED <<settings, stopped>>
  /\ payload' = NoPayload
  /\ UNCHANGED <<workerVars, summariesVars>>
  /\ received' = NoResponse
  /\ pc[t] = "await_diarize"
  /\ errorMessage' = [errorMessage EXCEPT ![owner[t]] = TimeoutMsg]
  /\ processingState' = "idle"
  /\ pc' = [pc EXCEPT ![t] = "done"]
  /\ sent' = "none"
  /\ UNCHANGED <<currentPage, sidecarConnected, isRecording,
                 recordingDuration, currentMeeting, transcript,
                 detectedSpeakers, showLabelingModal, nInst, alive,
                 timerInterval, labelingInterval, isStarting, speakerNames,
                 nTasks, owner, timerLive, waitLive>>

\* The request timeout of the sidecar channel: a diarize or summarize request
\* the sidecar has not answered is rejected with a timeout error, which the
\* catch block of handleStopRecording handles like any other rejection.
RequestTimeout(t) ==
  /\ op' = "RequestTimeout"
  /\ UNCHANGED <<settings, stopped>>
  /\ payload' = NoPayload
  /\ UNCHANGED <<workerVars, summariesVars>>
  /\ received' = NoResponse
  /\ pc[t] \in {"await_diarize", "await_summarize"}
  /\ errorMessage' = [errorMessage EXCEPT ![owner[t]] = TimeoutMsg]
  /\ processingState' = "idle"
  /\ pc' = [pc EXCEPT ![t] = "done"]
  /\ sent' = "none"
  /\ UNCHANGED <<currentPage, sidecarConnected, isRecording,
                 recordingDuration, currentMeeting, transcript,
                 detectedSpeakers, showLabelingModal, nInst, alive,
                 timerInterval, labelingInterval, isStarting, speakerNames,
                 nTasks, owner, timerLive, waitLive>>

\* The Done button, rendered while processingState is complete.
dismissComplete ==
  /\ op' = "dismissComplete"
  /\ payload' = NoPayload
  /\ UNCHANGED <<workerVars, summariesVars>>
  /\ received' = NoResponse
  /\ UNCHANGED <<settings, stopped>>
  /\ currentPage = "recording"
  /\ processingState = "complete"
  /\ processingState' = "idle"
  /\ currentMeeting' = NullMeeting
  /\ sent' = "none"
  /\ UNCHANGED <<currentPage, sidecarConnected, isRecording,
                 recordingDuration, transcript, detectedSpeakers,
                 showLabelingModal, pageVars, speakerNames, taskVars>>

\* The Dismiss button of the error banner.
clearError ==
  /\ op' = "clearError"
  /\ payload' = NoPayload
  /\ UNCHANGED <<workerVars, summariesVars>>
  /\ received' = NoResponse
  /\ UNCHANGED <<settings, stopped>>
  /\ currentPage = "recording"
  /\ errorMessage[nInst] # ""
  /\ errorMessage' = [errorMessage EXCEPT ![nInst] = ""]
  /\ sent' = "none"
  /\ UNCHANGED <<storeVars, nInst, alive, timerInterval, labelingInterval,
                 isStarting, speakerNames, taskVars>>

\* ---------------------------------------------------------- labeling modal
\* bind:value of a speaker's name input.
SetSpeakerName(label, name) ==
  /\ op' = "SetSpeakerName"
  /\ payload' = NoPayload
  /\ UNCHANGED <<workerVars, summariesVars>>
  /\ received' = NoResponse
  /\ UNCHANGED <<settings, stopped>>
  /\ showLabelingModal
  /\ label \in DetectedLabels(detectedSpeakers)
  /\ name \in UserInputs
  /\ speakerNames' = [l \in DOMAIN speakerNames \cup {label} |->
                        IF l = label THEN name ELSE speakerNames[l]]
  /\ speakerNames' # speakerNames
  /\ sent' = "none"
  /\ UNCHANGED <<storeVars, pageVars, taskVars>>

handleConfirm ==
  /\ op' = "handleConfirm"
  /\ payload' = NoPayload
  /\ UNCHANGED <<workerVars, summariesVars>>
  /\ received' = NoResponse
  /\ UNCHANGED <<settings, stopped>>
  /\ showLabelingModal
  /\ IF allLabeled
       THEN /\ transcript' = ConfirmRewrite(transcript, speakerNames)
            /\ showLabelingModal' = FALSE
            /\ processingState' = "summarizing"
       ELSE UNCHANGED <<transcript, showLabelingModal, processingState>>
  /\ sent' = "none"
  /\ UNCHANGED <<currentPage, sidecarConnected, isRecording,
                 recordingDuration, currentMeeting, detectedSpeakers,
                 pageVars, speakerNames, taskVars>>

handleSkip ==
  /\ op' = "handleSkip"
  /\ payload' = NoPayload
  /\ UNCHANGED <<workerVars, summariesVars>>
  /\ received' = NoResponse
  /\ UNCHANGED <<settings, stopped>>
  /\ showLabelingModal
  /\ transcript' = SkipRewrite(transcript, detectedSpeakers)
  /\ showLabelingModal' = FALSE
  /\ processingState' = "summarizing"
  /\ sent' = "none"
  /\ UNCHANGED <<currentPage, sidecarConnected, isRecording,
                 recordingDuration, currentMeeting, detectedSpeakers,
                 pageVars, speakerNames, taskVars>>

Keys == {"Escape", "Enter"}
handleKeydown(key) ==
  /\ showLabelingModal
  /\ key \in Keys
  /\ IF key = "Escape" THEN handleSkip
     ELSE /\ op' = "handleKeydown"
          /\ sent' = "none"
          /\ payload' = NoPayload
          /\ UNCHANGED <<workerVars, summariesVars>>
          /\ received' = NoResponse
          /\ UNCHANGED <<storeVars, pageVars, speakerNames, taskVars,
                         settings, stopped>>

handleBackdropClick ==
  /\ op' = "handleBackdropClick"
  /\ payload' = NoPayload
  /\ UNCHANGED <<workerVars, summariesVars>>
  /\ received' = NoResponse
  /\ UNCHANGED <<settings, stopped>>
  /\ showLabelingModal
  /\ sent' = "none"
  /\ UNCHANGED <<storeVars, pageVars, speakerNames, taskVars>>

\* ---------------------------------------------------------- settings page
\* bind:group of the provider radio buttons.
SetLlmProvider(provider) ==
  /\ op' = "SetLlmProvider"
  /\ currentPage = "settings"
  /\ provider \in Providers
  /\ provider # settings.llmProvider
  /\ settings' = [settings EXCEPT !.llmProvider = provider]
  /\ sent' = "none"
  /\ payload' = NoPayload
  /\ UNCHANGED <<workerVars, summariesVars>>
  /\ received' = NoResponse
  /\ UNCHANGED <<storeVars, pageVars, speakerNames, taskVars, stopped>>

\* bind:value of the API key input, disabled while the provider is ollama.
SetApiKey(key) ==
  /\ op' = "SetApiKey"
  /\ currentPage = "settings"
  /\ settings.llmProvider # "ollama"
  /\ key \in ApiKeys
  /\ key # settings.apiKey
  /\ settings' = [settings EXCEPT !.apiKey = key]
  /\ sent' = "none"
  /\ payload' = NoPayload
  /\ UNCHANGED <<workerVars, summariesVars>>
  /\ received' = NoResponse
  /\ UNCHANGED <<storeVars, pageVars, speakerNames, taskVars, stopped>>

\* ------------------------------------------------------ sidecar responses
\* Segment lists of at most n segments with speakers drawn from spk.
SegLists(texts, spk, n) ==
  UNION {[1..k -> [text : texts, speaker : spk]] : k \in 0..n}

\* diarize: a segment list (or none) and a speakers list (or none).
DiarizeSegments ==
  {Absent} \cup
    {Some(l) : l \in SegLists(Texts, Labels \cup {NoSpeaker}, MaxSegs)}
\* Speakers lists name each label at most once (the modal keys its inputs
\* and its names by label); they need not name every label of the segments.
SuggestedNames == {"null", "Ann"}
DiarizeSpeakers ==
  {Absent} \cup
    {Some(l) : l \in
       {q \in UNION {[1..k -> [label : Labels, suggestedName : SuggestedNames,
                               confidence : {0}, excerpts : {<<>>}]] :
                       k \in 0..Cardinality(Labels)} :
          \A a, b \in 1..Len(q) : q[a].label = q[b].label => a = b}}

\* The responses and inputs the session specification draws: one live
\* segment, one diarized segment, a speakers list without entries, one
\* other page to navigate to, one audio path.
SessionPolls == {Absent, Some(<<SegmentOf("t1", NoSpeaker)>>)}
SessionSegments == {Absent, Some(<<SegmentOf("t1", "SPEAKER_00")>>)}
SessionSpeakers == {Absent, Some(<<>>)}
SessionInputs == {"", "Ann"}
SessionPages == {"recording", "summaries"}
SessionPaths == {"rec.wav"}

Next ==
  \/ \E page \in SessionPages : NavigateTo(page)
  \/ HandleStartRecording
  \/ \E t \in Tasks : StartSidecarOk(t)
  \/ \E t \in Tasks, msg \in ErrMsgs : StartFail(t, msg)
  \/ \E t \in Tasks : StartRecordingOk(t)
  \/ \E t \in Tasks, segments \in SessionPolls : PollResponse(t, segments)
  \/ \E t \in Tasks : PollWake(t)
  \/ \E t \in Tasks : TimerTick(t)
  \/ HandleStopRecording
  \/ \E t \in Tasks, audioPath \in SessionPaths : StopRecordingOk(t, audioPath)
  \/ \E t \in Tasks, segments \in SessionSegments,
        speakers \in SessionSpeakers : DiarizeOk(t, segments, speakers)
  \/ \E t \in Tasks : LabelingTick(t)
  \/ \E t \in Tasks : SummarizeOk(t)
  \/ \E t \in Tasks, msg \in ErrMsgs : PipelineFail(t, msg)
  \/ dismissComplete
  \/ clearError
  \/ \E label \in Labels, name \in SessionInputs : SetSpeakerName(label, name)
  \/ handleConfirm
  \/ handleSkip
  \/ \E key \in Keys : handleKeydown(key)
  \/ handleBackdropClick

Spec == Init /\ [][Next]_vars

\* ------------------------------------------------- timeout specification
\* The session with the channel's request timeouts: a timer that is armed
\* with a request fires unless the response comes first; the sidecar itself
\* is under no obligation to answer.
TimeoutNext ==
  \/ Next
  \/ \E t \in Tasks : RequestTimeout(t)

TimeoutSpec ==
  /\ Init
  /\ [][TimeoutNext]_vars
  /\ \A t \in Tasks : WF_vars(RequestTimeout(t))

\* ------------------------------------------------ labeling specification
\* The labeling step on its own: the first session is waiting for the
\* diarize response with any live transcript, and the response, the names
\* typed and the decision are drawn from the full payload sets.
LabelInit ==
  /\ currentPage = "recording"
  /\ sidecarConnected = TRUE
  /\ isRecording = FALSE
  /\ recordingDuration = 0
  /\ processingState = "diarizing"
  /\ currentMeeting =
       [id |-> 1, status |-> "processing", audioPath |-> "rec.wav"]
  /\ transcript \in SegLists(Texts, {NoSpeaker}, MaxSegs)
  /\ detectedSpeakers = <<>>
  /\ showLabelingModal = FALSE
  /\ nInst = 1
  /\ alive = [i \in Inst |-> TRUE]
  /\ timerInterval = [i \in Inst |-> NoTask]
  /\ labelingInterval = [i \in Inst |-> NoTask]
  /\ errorMessage = [i \in Inst |-> ""]
  /\ isStarting = [i \in Inst |-> FALSE]
  /\ speakerNames = [l \in {} |-> ""]
  /\ nTasks = 2
  /\ pc = [t \in Tasks |->
             IF t = 1 THEN "done" ELSE IF t = 2 THEN "await_diarize"
             ELSE "free"]
  /\ owner = [t \in Tasks |-> IF t \in {1, 2} THEN 1 ELSE 0]
  /\ timerLive = {}
  /\ waitLive = {}
  /\ settings = DefaultSettings
  /\ stopped = {1}
  /\ sent = "diarize"
  /\ payload = NoPayload
  /\ received = NoResponse
  /\ align = NoAlignment
  /\ vad = VadInit
  /\ SummariesUnmounted
  /\ op = "StopRecordingOk"

LabelNext ==
  \/ \E t \in {u \in Tasks : pc[u] = "await_diarize"},
        segments \in DiarizeSegments, speakers \in DiarizeSpeakers :
          DiarizeOk(t, segments, speakers)
  \/ \E label \in Labels, name \in UserInputs : SetSpeakerName(label, name)
  \/ handleConfirm
  \/ handleSkip
  \/ \E key \in Keys : handleKeydown(key)
  \/ handleBackdropClick
  \/ \E t \in Tasks : LabelingTick(t)
  \/ \E t \in Tasks : SummarizeOk(t)
  \/ dismissComplete

LabelSpec == LabelInit /\ [][LabelNext]_vars

\* ----------------------------------------------- recording specification
\* Sessions with every live transcript the sidecar can report while
\* recording (any list of up to MaxSegs segments, shorter ones included) and
\* both kinds of stop_recording response (with and without an audio_path).
PollSegments ==
  {Absent} \cup {Some(l) : l \in SegLists(Texts, {NoSpeaker}, MaxSegs)}

RecNext ==
  \/ \E page \in SessionPages : NavigateTo(page)
  \/ HandleStartRecording
  \/ \E t \in Tasks : StartSidecarOk(t)
  \/ \E t \in Tasks, msg \in ErrMsgs : StartFail(t, msg)
  \/ \E t \in Tasks : StartRecordingOk(t)
  \/ \E t \in {u \in Tasks : pc[u] = "poll_await"},
        segments \in PollSegments : PollResponse(t, segments)
  \/ \E t \in Tasks : PollWake(t)
  \/ HandleStopRecording
  \/ \E t \in Tasks, audioPath \in AudioPaths : StopRecordingOk(t, audioPath)
  \/ \E t \in Tasks, segments \in SessionSegments,
        speakers \in SessionSpeakers : DiarizeOk(t, segments, speakers)
  \/ \E label \in Labels, name \in SessionInputs : SetSpeakerName(label, name)
  \/ handleConfirm
  \/ handleSkip
  \/ \E t \in Tasks : LabelingTick(t)
  \/ \E t \in Tasks : SummarizeOk(t)
  \/ \E t \in Tasks, msg \in ErrMsgs : PipelineFail(t, msg)
  \/ dismissComplete

RecSpec == Init /\ [][RecNext]_vars

\* ------------------------------------------------ settings specification
\* Sessions with the settings page: the user may visit every page and edit
\* the provider and the API key at any time; the sidecar answers every
\* request of the session.
SettingsProviders == {"claude", "ollama"}
SettingsNext ==
  \/ \E page \in Pages : NavigateTo(page)
  \/ \E provider \in SettingsProviders : SetLlmProvider(provider)
  \/ \E key \in ApiKeys : SetApiKey(key)
  \/ HandleStartRecording
  \/ \E t \in Tasks : StartSidecarOk(t)
  \/ \E t \in Tasks : StartRecordingOk(t)
  \/ \E t \in Tasks, segments \in SessionPolls : PollResponse(t, segments)
  \/ \E t \in Tasks : PollWake(t)
  \/ HandleStopRecording
  \/ \E t \in Tasks, audioPath \in SessionPaths : StopRecordingOk(t, audioPath)
  \/ \E t \in Tasks, segments \in SessionSegments,
        speakers \in SessionSpeakers : DiarizeOk(t, segments, speakers)
  \/ handleSkip
  \/ \E t \in Tasks : LabelingTick(t)
  \/ \E t \in Tasks : SummarizeOk(t)
  \/ dismissComplete

SettingsSpec == Init /\ [][SettingsNext]_vars

\* --------------------------------------------- diarization specification
\* The diarization response on its own: a session is waiting for it, the
\* store still holds the speakers of the session before (dismissComplete
\* does not clear them), and the response carries up to MaxDerivSegs
\* segments.
DerivSegments ==
  {Absent} \cup
    {Some(l) : l \in SegLists(Texts, Labels \cup {NoSpeaker}, MaxDerivSegs)}
PreviousSpeakers ==
  <<[label |-> "SPEAKER_01", suggestedName |-> "Ann", confidence |-> 0,
     excerpts |-> <<>>]>>

DerivInit ==
  /\ currentPage = "recording"
  /\ sidecarConnected = TRUE
  /\ isRecording = FALSE
  /\ recordingDuration = 0
  /\ processingState = "diarizing"
  /\ currentMeeting =
       [id |-> 1, status |-> "processing", audioPath |-> "rec.wav"]
  /\ transcript \in SegLists(Texts, {NoSpeaker}, MaxSegs)
  /\ detectedSpeakers \in {<<>>, PreviousSpeakers}
  /\ showLabelingModal = FALSE
  /\ nInst = 1
  /\ alive = [i \in Inst |-> TRUE]
  /\ timerInterval = [i \in Inst |-> NoTask]
  /\ labelingInterval = [i \in Inst |-> NoTask]
  /\ errorMessage = [i \in Inst |-> ""]
  /\ isStarting = [i \in Inst |-> FALSE]
  /\ speakerNames = IF detectedSpeakers = <<>> THEN [l \in {} |-> ""]
                    ELSE InitialNames(detectedSpeakers)
  /\ nTasks = 2
  /\ pc = [t \in Tasks |->
             IF t = 1 THEN "done" ELSE IF t = 2 THEN "await_diarize"
             ELSE "free"]
  /\ owner = [t \in Tasks |-> IF t \in {1, 2} THEN 1 ELSE 0]
  /\ timerLive = {}
  /\ waitLive = {}
  /\ settings = DefaultSettings
  /\ stopped = {1}
  /\ sent = "diarize"
  /\ payload = NoPayload
  /\ received = NoResponse
  /\ align = NoAlignment
  /\ vad = VadInit
  /\ SummariesUnmounted
  /\ op = "StopRecordingOk"

DerivNext ==
  \/ \E t \in {u \in Tasks : pc[u] = "await_diarize"},
        segments \in DerivSegments, speakers \in DiarizeSpeakers :
          DiarizeOk(t, segments, speakers)
  \/ handleSkip

DerivSpec == DerivInit /\ [][DerivNext]_vars

\* ------------------------------------------------------------------ claims
StartAwaits == {"await_startSidecar", "await_start_recording"}
PipelineAwaits == {"await_stop_recording", "await_diarize", "await_summarize"}

\* C1: processingState changes only along idle -> recording -> diarizing ->
\* labeling -> summarizing -> complete, and back to idle after a finished or
\* failed session; no stage is skipped or entered out of order.
StageOrder ==
  {<<"idle", "recording">>, <<"recording", "diarizing">>,
   <<"diarizing", "labeling">>, <<"labeling", "summarizing">>,
   <<"summarizing", "complete">>}
    \cup {<<s, "idle">> : s \in ProcessingStates \ {"idle"}}
C1_StagesInOrder ==
  [][processingState' # processingState
       => <<processingState, processingState'>> \in StageOrder]_vars

\* C2: while processingState is not idle no start_recording request is sent
\* and the session state is not reset by a start.
C2_StartRejectedWhileActive ==
  [][processingState # "idle"
       => /\ sent' # "start_recording"
          /\ op' # "StartRecordingOk"]_vars

\* C3: a failed start leaves processingState idle and isRecording false,
\* reports the failure in errorMessage, and starts neither the duration
\* timer nor the polling loop.
C3_FailedStartStaysIdle ==
  [][op' = "StartFail"
       => /\ processingState' = "idle"
          /\ ~isRecording'
          /\ \E t \in Tasks :
               /\ pc[t] \in StartAwaits
               /\ pc'[t] = "done"
               /\ errorMessage'[owner[t]] # ""
               /\ t \notin timerLive'
          /\ timerLive' = timerLive
          /\ sent' # "get_transcript"]_vars
C3_Witness ==
  /\ op = "StartFail"
  /\ processingState = "idle"
  /\ ~isRecording
  /\ \E t \in Tasks : pc[t] = "done" /\ errorMessage[owner[t]] \in ErrMsgs
  /\ timerLive = {}

\* C4: while processingState is idle the stop action is not available.
StopAvailable ==
  /\ currentPage = "recording"
  /\ ~canStartRecording(nInst)
  /\ isRecording
C4_NoStopWhileIdle == processingState = "idle" => ~StopAvailable

Pending(t) ==
  \/ pc[t] \in StartAwaits \cup PipelineAwaits
  \/ pc[t] = "wait_labeling" /\ t \in waitLive
Blocked ==
  /\ processingState \notin {"idle", "complete"}
  /\ ~isRecording
  /\ \A t \in Tasks : ~Pending(t)
C6_NeverBlocked == ~Blocked

\* C7: labeling is left only by the user's confirm or skip, and no
\* summarize request is sent while the session is in labeling.
C7_LabelingLeftOnlyByUser ==
  [][processingState = "labeling"
       => /\ processingState' = "labeling"
               \/ op' \in {"handleConfirm", "handleSkip"}
          /\ sent' # "summarize"]_vars

\* C8: once the user has confirmed or skipped, the pipeline continues: the
\* wait of handleStopRecording is still live, so the summarize request
\* follows.
C8_DecisionResumesPipeline ==
  (op \in {"handleConfirm", "handleSkip"} /\ processingState = "summarizing")
    => \E t \in Tasks : pc[t] = "wait_labeling" /\ t \in waitLive

\* C9: after confirm or skip no transcript segment still carries a raw
\* diarization label.
C9_NoRawLabelAfterDecision ==
  [][(op' \in {"handleConfirm", "handleSkip"} /\ ~showLabelingModal')
       => \A k \in 1..Len(transcript') :
            transcript'[k].speaker \notin Labels]_vars

C11_StopEndsPolling ==
  [][/\ op' = "PollResponse"
          => isRecording' = isRecording /\ processingState' = processingState
     /\ \A t \in stopped :
          ~(pc[t] = "poll_sleep" /\ pc'[t] = "poll_await")]_vars

\* C12: from the moment stop is triggered until the next successful start
\* recordingDuration does not change.
AfterStop ==
  /\ stopped # {}
  /\ currentMeeting.id \in stopped \cup {NullMeeting.id}
C12_NoTickAfterStop ==
  [][(AfterStop /\ op' # "StartRecordingOk")
       => recordingDuration' = recordingDuration]_vars

\* C13: within one session stop_recording, diarize and summarize are each
\* sent at most once: a handleStopRecording invocation only moves forward
\* through its requests, its failure ends it without sending anything, and
\* a new stop_recording is sent only by the user's stop action.
PipelineRank(s) ==
  CASE s = "await_stop_recording" -> 1
    [] s = "await_diarize" -> 2
    [] s = "wait_labeling" -> 3
    [] s = "await_summarize" -> 4
    [] s = "done" -> 5
    [] OTHER -> 0
C13_NoAutomaticRetry ==
  [][/\ \A t \in Tasks :
          (PipelineRank(pc[t]) > 0 /\ pc'[t] # pc[t])
            => PipelineRank(pc'[t]) > PipelineRank(pc[t])
     /\ sent' = "stop_recording" => op' = "HandleStopRecording"
     /\ sent' = "diarize"
          => \E t \in Tasks : /\ pc[t] = "await_stop_recording"
                              /\ pc'[t] = "await_diarize"
     /\ sent' = "summarize"
          => \E t \in Tasks : /\ pc[t] = "wait_labeling"
                              /\ pc'[t] = "await_summarize"
     /\ op' = "PipelineFail"
          => /\ sent' = "none"
             /\ \E t \in Tasks : pc[t] \in PipelineAwaits /\ pc'[t] = "done"]_vars
C13_Witness ==
  /\ op = "PipelineFail"
  /\ currentMeeting.status = "processing"
  /\ sent = "none"
  /\ \A t \in Tasks : pc[t] \notin PipelineAwaits

\* C14: a diarize or summarize request the sidecar never answers does not
\* hold the session in diarizing or summarizing forever: the session leaves
\* that state.
AwaitingDiarize ==
  /\ processingState = "diarizing"
  /\ \E t \in Tasks : pc[t] = "await_diarize"
AwaitingSummarize ==
  /\ processingState = "summarizing"
  /\ \E t \in Tasks : pc[t] = "await_summarize"
C15_HealthCheckBeforeEveryStart ==
  [][sent' = "start_recording" => op' = "StartSidecarOk"]_vars

\* C16: every request message sent to the sidecar has a type of the closed
\* set of the protocol.
RequestTypes ==
  {"transcribe_chunk", "diarize", "identify_speakers", "summarize",
   "save_summary", "get_all_speakers", "get_summaries_for_speaker",
   "get_summary_detail", "search_summaries", "save_settings",
   "load_settings"}
\* start_sidecar is a command of the shell, not a message to the sidecar.
NotAMessage == {"none", "start_sidecar"}
C16_RequestTypesClosed == sent \in RequestTypes \cup NotAMessage

\* C17: on the diarization response detectedSpeakers is the response's
\* speakers list if it carries one; otherwise it has one entry per distinct
\* speaker label of the transcript, in order of first appearance, each with
\* suggestedName null, confidence 0 and as excerpts the texts of the first
\* segments of that label, three at most. Nothing of the list before
\* remains.
Occurrences(tr, label) == {j \in 1..Len(tr) : tr[j].speaker = label}
FirstIndex(tr, label) ==
  CHOOSE j \in Occurrences(tr, label) :
    \A i \in Occurrences(tr, label) : j <= i
NthIndex(tr, label, m) ==
  CHOOSE j \in Occurrences(tr, label) :
    Cardinality({i \in Occurrences(tr, label) : i <= j}) = m
AtMost(a, b) == IF a < b THEN a ELSE b
C17_DetectedSpeakersPopulated ==
  [][op' = "DiarizeOk"
       => LET tr == transcript'
              ds == detectedSpeakers'
          IN IF Present(received'.speakers)
               THEN ds = received'.speakers[1]
               ELSE
                 /\ \A a, b \in 1..Len(ds) : ds[a].label = ds[b].label => a = b
                 /\ {ds[k].label : k \in 1..Len(ds)}
                      = {tr[j].speaker : j \in 1..Len(tr)} \ {NoSpeaker}
                 /\ \A a, b \in 1..Len(ds) :
                      a < b => FirstIndex(tr, ds[a].label)
                                 < FirstIndex(tr, ds[b].label)
                 /\ \A k \in 1..Len(ds) :
                      LET occ == Occurrences(tr, ds[k].label)
                          exc == ds[k].excerpts
                      IN /\ ds[k].suggestedName = "null"
                         /\ ds[k].confidence = 0
                         /\ Len(exc) = AtMost(Cardinality(occ), ExcerptLimit)
                         /\ \A m \in 1..Len(exc) :
                              exc[m] = tr[NthIndex(tr, ds[k].label, m)].text]_vars
C17_Witness ==
  /\ op = "DiarizeOk"
  /\ ~Present(received.speakers)
  /\ Len(transcript) = 4
  /\ \A j \in 1..Len(transcript) : transcript[j].speaker = "SPEAKER_01"
  /\ Len(detectedSpeakers) = 1
  /\ detectedSpeakers[1].excerpts = <<"t2", "t1", "t1">>

\* C18: when processingState becomes complete the summary has been handed
\* to storage: the markdown is known only from the summarize response, and
\* complete is set in the step that handles it, so that step sends
\* save_summary.
C18_SummarySavedOnComplete ==
  [][(processingState' = "complete" /\ processingState # "complete")
       => sent' = "save_summary"]_vars

\* C19: processingState is written only by the recording page's handlers;
\* the actions of the labeling modal, of navigation and of the settings page
\* leave it unchanged.
OtherComponentActions ==
  {"NavigateTo", "SetSpeakerName", "handleConfirm", "handleSkip",
   "handleKeydown", "handleBackdropClick", "SetLlmProvider", "SetApiKey"}
C19_SoleWriterOfStatus ==
  [][op' \in OtherComponentActions
       => processingState' = processingState]_vars

\* C20: no summarize request is sent with an empty api_key.
C20_NoSummarizeWithoutApiKey ==
  [][sent' = "summarize" => settings.apiKey # ""]_vars

\* C21: while a session records, the transcript's segment count never
\* decreases: a poll response replaces the transcript only when its list is
\* strictly longer, and nothing but a new start or the diarization response
\* shortens the transcript.
C21_TranscriptGrowsWhileRecording ==
  [][/\ op' = "PollResponse"
          => transcript' =
               IF /\ Present(received'.segments)
                  /\ Len(received'.segments[1]) > Len(transcript)
                 THEN received'.segments[1] ELSE transcript
     /\ op' \notin {"StartRecordingOk", "DiarizeOk"}
          => Len(transcript') >= Len(transcript)]_vars
C21_Witness ==
  /\ op = "PollResponse"
  /\ processingState = "recording"
  /\ Present(received.segments)
  /\ Len(received.segments[1]) < Len(transcript)

\* C22: while the session records, transcript polling keeps running: some
\* polling loop of a mounted page instance is in flight or asleep, also
\* after the user has navigated to another page and back.
C22_PollingRunsWhileRecording ==
  (processingState = "recording" /\ isRecording)
    => \E t \in Tasks : /\ pc[t] \in {"poll_await", "poll_sleep"}
                        /\ alive[owner[t]]

\* C26: isRecording is true only while processingState is recording.
C26_RecordingFlagOnlyWhileRecording ==
  isRecording => processingState = "recording"

\* C27: the labeling modal is shown exactly when the session is in labeling.
C27_ModalShownIffLabeling ==
  showLabelingModal <=> processingState = "labeling"

\* C28: the diarize request is sent only in the step that handles the
\* stop_recording response of the same handler, with the audio_path of that
\* response, which is also the one stored on currentMeeting; a handler whose
\* stop_recording failed sends nothing any more; the summarize request is
\* sent only once the labeling modal is closed.
C28_PipelineRequestsOrdered ==
  [][/\ sent' = "diarize"
          => /\ op' = "StopRecordingOk"
             /\ \E t \in Tasks : /\ pc[t] = "await_stop_recording"
                                 /\ pc'[t] = "await_diarize"
             /\ payload'.audio_path = received'.audio_path
             /\ currentMeeting' # NullMeeting
                  => currentMeeting'.audioPath = payload'.audio_path
     /\ \A t \in Tasks : pc[t] = "done" => pc'[t] = "done"
     /\ op' = "PipelineFail" => sent' = "none"
     /\ sent' = "summarize" => (~showLabelingModal /\ ~showLabelingModal')]_vars
C28_Witness ==
  /\ op = "StopRecordingOk"
  /\ sent = "diarize"
  /\ payload.audio_path = "rec.wav"
  /\ currentMeeting.audioPath = "rec.wav"
  /\ processingState = "diarizing"

\* C29: a diarization response with a segment list replaces the transcript
\* by exactly that list; from then until the summarize request is sent the
\* speaker-labelled transcript changes only through confirm or skip, which keep the segments
\* and their texts; and the summarize request carries the text built from
\* that transcript.
Labelled(tr) ==
  /\ Len(tr) > 0
  /\ \A k \in 1..Len(tr) : Truthy(tr[k].speaker)
SameTexts(a, b) ==
  /\ Len(a) = Len(b)
  /\ \A k \in 1..Len(a) : a[k].text = b[k].text
BeforeSummarize ==
  \/ processingState = "labeling"
  \/ /\ processingState = "summarizing"
     /\ \E t \in Tasks : pc[t] = "wait_labeling"
C29_TranscriptRewrittenWholesale ==
  [][/\ (op' = "DiarizeOk" /\ Present(received'.segments))
          => transcript' = received'.segments[1]
     /\ (BeforeSummarize /\ Labelled(transcript) /\ transcript' # transcript)
          => /\ op' \in {"handleConfirm", "handleSkip"}
             /\ SameTexts(transcript, transcript')
     /\ sent' = "summarize"
          => payload'.transcript = fullTranscript(transcript)]_vars

\* C30: once the diarization response has set a speaker-labelled transcript,
\* from labeling until the next start no get_transcript response replaces
\* it: it changes only through confirm or skip.
AfterDiarization ==
  processingState \in {"labeling", "summarizing", "complete"}
C30_NoPollAfterDiarization ==
  [][(AfterDiarization /\ Labelled(transcript) /\ transcript' # transcript)
       => op' \in {"handleConfirm", "handleSkip", "StartRecordingOk"}]_vars

\* ------------------------------------------- transcript / speaker aligner
\* The aligner runs in the sidecar process; it is modelled from its contract.
\* Times are points of a grid 0..MaxTime; a range is [start, end).
MaxTime == 5        \* last grid point of the aligner's time axis
MaxIntervals == 3   \* most speaker intervals in one diarization output

\* The store, the page and the handlers before any user action.
AppInit ==
  /\ currentPage = "recording"
  /\ sidecarConnected = FALSE
  /\ isRecording = FALSE
  /\ recordingDuration = 0
  /\ processingState = "idle"
  /\ currentMeeting = NullMeeting
  /\ transcript = <<>>
  /\ detectedSpeakers = <<>>
  /\ showLabelingModal = FALSE
  /\ nInst = 1
  /\ alive = [i \in Inst |-> TRUE]
  /\ timerInterval = [i \in Inst |-> NoTask]
  /\ labelingInterval = [i \in Inst |-> NoTask]
  /\ errorMessage = [i \in Inst |-> ""]
  /\ isStarting = [i \in Inst |-> FALSE]
  /\ speakerNames = [l \in {} |-> ""]
  /\ nTasks = 0
  /\ pc = [t \in Tasks |-> "free"]
  /\ owner = [t \in Tasks |-> 0]
  /\ timerLive = {}
  /\ waitLive = {}
  /\ settings = DefaultSettings
  /\ stopped = {}
  /\ sent = "none"
  /\ payload = NoPayload
  /\ received = NoResponse
  /\ op = "init"
AppUnchanged ==
  UNCHANGED <<storeVars, pageVars, speakerNames, taskVars, settings, stopped,
              sent, payload, received>>

Min(a, b) == IF a < b THEN a ELSE b
Max(a, b) == IF a > b THEN a ELSE b

\* TranscriptSegment ranges, zero-duration ones included.
TimeRanges ==
  {r \in [start : 0..MaxTime, end : 0..MaxTime] : r.start <= r.end}
\* SpeakerInterval: {label, start, end}, one per turn, never empty.
SpeakerIntervals ==
  {iv \in [label : Labels, start : 0..MaxTime, end : 0..MaxTime] :
     iv.start < iv.end}
\* A diarization output: intervals in time order that do not overlap.
NonOverlapping(ivs) ==
  \A k \in 1..(Len(ivs) - 1) : ivs[k].end <= ivs[k + 1].start
IntervalLists ==
  UNION {{ivs \in [1..n -> SpeakerIntervals] : NonOverlapping(ivs)} :
           n \in 0..MaxIntervals}

\* Overlapped duration of the segment with one interval.
Overlap(seg, iv) ==
  Max(0, Min(seg.end, iv.end) - Max(seg.start, iv.start))
\* What one interval contributes to its label: the overlapped duration, and
\* for a segment of zero duration whether the interval contains its start.
Weight(seg, iv) ==
  IF seg.start = seg.end
    THEN IF iv.start <= seg.start /\ seg.start < iv.end THEN 1 ELSE 0
    ELSE Overlap(seg, iv)
RECURSIVE Accumulate(_, _, _)
Accumulate(seg, ivs, totals) ==
  IF ivs = <<>> THEN totals
  ELSE LET iv == Head(ivs)
       IN Accumulate(seg, Tail(ivs),
                     [totals EXCEPT ![iv.label] = @ + Weight(seg, iv)])
Intersecting(a) ==
  {k \in 1..Len(a.intervals) :
     IF a.segment.start = a.segment.end
       THEN /\ a.intervals[k].start <= a.segment.start
            /\ a.segment.start < a.intervals[k].end
       ELSE /\ a.intervals[k].start < a.segment.end
            /\ a.segment.start < a.intervals[k].end}
FirstIntersecting(a) ==
  CHOOSE k \in Intersecting(a) : \A j \in Intersecting(a) : k <= j

\* First-match assignment: the label of the first intersecting interval.
assignFirstOverlap(seg, ivs) ==
  LET a == [segment |-> seg, intervals |-> ivs, result |-> "unset"]
  IN IF Intersecting(a) = {} THEN {"null"}
     ELSE {ivs[FirstIntersecting(a)].label}
\* Gap filling: a segment in a gap takes the label of the first interval.
assignGuessInGap(seg, ivs) ==
  LET totals == Accumulate(seg, ivs, [l \in Labels |-> 0])
      best == {l \in Labels :
                 /\ totals[l] > 0
                 /\ \A m \in Labels : totals[l] >= totals[m]}
  IN IF best # {} THEN best
     ELSE IF ivs = <<>> THEN {"null"} ELSE {ivs[1].label}

\* assign, for one segment: the labels it may return. The label with the
\* greatest total wins; with no intersecting interval the segment stays
\* unassigned ("null"). Which of two labels of equal total wins is not fixed
\* by the contract, so both are admitted.
assign(seg, ivs) ==
  LET totals == Accumulate(seg, ivs, [l \in Labels |-> 0])
      best == {l \in Labels :
                 /\ totals[l] > 0
                 /\ \A m \in Labels : totals[l] >= totals[m]}
  IN IF best = {} THEN {"null"} ELSE best

AlignInit ==
  /\ AppInit
  /\ \E seg \in TimeRanges, ivs \in IntervalLists :
       align = [segment |-> seg, intervals |-> ivs, result |-> "unset"]
  /\ vad = VadInit
  /\ SummariesUnmounted
AlignSegment ==
  /\ align.result = "unset"
  /\ \E r \in assign(align.segment, align.intervals) :
       align' = [align EXCEPT !.result = r]
  /\ op' = "assign"
  /\ AppUnchanged
  /\ UNCHANGED <<vad, summariesVars>>
AlignNext == AlignSegment
AlignSpec == AlignInit /\ [][AlignNext]_vars

\* Grid cells of the segment that intervals of label l cover.
Covered(a, l) ==
  Cardinality({t \in a.segment.start..(a.segment.end - 1) :
                 \E k \in 1..Len(a.intervals) :
                   /\ a.intervals[k].label = l
                   /\ a.intervals[k].start <= t
                   /\ t < a.intervals[k].end})
\* C23: for every segment of positive duration and every list of
\* non-overlapping speaker intervals that overlaps it, assign gives the
\* segment a label whose total overlapped duration is positive and at least
\* that of every other label, whichever interval overlaps first.
C23_GreatestTotalOverlapWins ==
  (/\ align.result # "unset"
   /\ align.segment.start < align.segment.end
   /\ Intersecting(align) # {})
    => /\ align.result \in Labels
       /\ Covered(align, align.result) > 0
       /\ \A m \in Labels : Covered(align, align.result) >= Covered(align, m)
\* Overlaps of 1 (first) and 3 against a 4-long segment select the label
\* with overlap 3.
C23_Witness ==
  /\ op = "assign"
  /\ align.segment.end - align.segment.start = 4
  /\ Len(align.intervals) = 2
  /\ Overlap(align.segment, align.intervals[1]) = 1
  /\ Overlap(align.segment, align.intervals[2]) = 3
  /\ align.intervals[1].label # align.intervals[2].label
  /\ align.result = align.intervals[2].label

\* C24: a segment that no speaker interval intersects is left unassigned
\* (speaker null), and only such a segment is.
C24_GapLeftUnassigned ==
  align.result # "unset"
    => (Intersecting(align) = {} <=> align.result = "null")
\* A segment of positive duration in the silence between two turns.
C24_Witness ==
  /\ op = "assign"
  /\ align.result = "null"
  /\ align.segment.start < align.segment.end
  /\ Len(align.intervals) = 2
  /\ align.intervals[1].end <= align.segment.start
  /\ align.segment.end <= align.intervals[2].start

\* ---------------------------------------------------- voice activity gate
\* The gate runs in the Rust backend; it is modelled from its contract.
\* A window is one fixed-size slice of the mixed PCM, classified as speech
\* or silence; windows are numbered from 1 in arrival order.
MaxWindows == 8     \* windows consumed in one run
OpenWindows == 2       \* N: consecutive speech windows that open a chunk
CloseWindows == 2      \* M: consecutive silence windows that close it
MaxChunkWindows == 5   \* maximum chunk duration, in windows
WindowKinds == {"speech", "silence"}

VadSpecInit ==
  /\ AppInit
  /\ align = NoAlignment
  /\ vad = VadInit
  /\ SummariesUnmounted
\* One chunk: its first and last window and why it was emitted.
Chunk(first, last, why) == [start |-> first, end |-> last, reason |-> why]
\* The gate opens at once on a speech window: no hysteresis.
WindowNoHysteresis(w) ==
  LET pos == Len(vad.windows) + 1
      ws == Append(vad.windows, w)
  IN /\ Len(vad.windows) < MaxWindows
     /\ vad' = IF ~vad.open
                 THEN IF w = "speech"
                        THEN [vad EXCEPT !.windows = ws, !.open = TRUE,
                                         !.start = pos, !.silenceRun = 0]
                        ELSE [vad EXCEPT !.windows = ws]
                 ELSE IF w = "silence" /\ vad.silenceRun + 1 = CloseWindows
                        THEN [vad EXCEPT
                                !.windows = ws, !.open = FALSE,
                                !.speechRun = 0, !.silenceRun = 0,
                                !.chunks = Append(@, Chunk(vad.start,
                                              pos - CloseWindows, "silence"))]
                        ELSE [vad EXCEPT
                                !.windows = ws,
                                !.silenceRun = IF w = "silence" THEN @ + 1
                                               ELSE 0]
     /\ op' = "Window"
     /\ AppUnchanged
     /\ UNCHANGED <<align, summariesVars>>
\* The gate consumes one window.
Window(w) ==
  LET pos == Len(vad.windows) + 1
      ws == Append(vad.windows, w)
  IN /\ Len(vad.windows) < MaxWindows
     /\ vad' =
          IF ~vad.open
            THEN IF w = "silence"
                   THEN [vad EXCEPT !.windows = ws, !.speechRun = 0]
                 ELSE IF vad.speechRun + 1 < OpenWindows
                   THEN [vad EXCEPT !.windows = ws, !.speechRun = @ + 1]
                 ELSE [vad EXCEPT !.windows = ws, !.open = TRUE,
                                  !.speechRun = 0, !.silenceRun = 0,
                                  !.start = pos - OpenWindows + 1]
          ELSE IF w = "silence" /\ vad.silenceRun + 1 = CloseWindows
            THEN [vad EXCEPT
                    !.windows = ws, !.open = FALSE,
                    !.speechRun = 0, !.silenceRun = 0,
                    !.chunks = Append(@, Chunk(vad.start, pos - CloseWindows,
                                               "silence"))]
          ELSE IF pos - vad.start + 1 = MaxChunkWindows
            THEN [vad EXCEPT
                    !.windows = ws, !.open = FALSE,
                    !.speechRun = 0, !.silenceRun = 0,
                    !.chunks = Append(@, Chunk(vad.start, pos, "max"))]
          ELSE [vad EXCEPT
                  !.windows = ws,
                  !.silenceRun = IF w = "silence" THEN @ + 1 ELSE 0]
     /\ op' = "Window"
     /\ AppUnchanged
     /\ UNCHANGED <<align, summariesVars>>
VadNext == \E w \in WindowKinds : Window(w)
VadSpec == VadSpecInit /\ [][VadNext]_vars

\* The last n windows of ws are all of kind k.
LastAre(ws, n, k) ==
  /\ Len(ws) >= n
  /\ \A j \in (Len(ws) - n + 1)..Len(ws) : ws[j] = k
\* Window j is a speech window with silence (or nothing) on both sides.
Isolated(ws, j) ==
  /\ ws[j] = "speech"
  /\ j > 1 => ws[j - 1] = "silence"
  /\ j < Len(ws) => ws[j + 1] = "silence"

\* C25: in every step of the gate, a chunk opens only when the last N
\* windows are speech, and then starts at the first of them; a chunk is
\* emitted only on closing, after M silence windows in a row or at the
\* maximum chunk length; the emitted chunks are only ever appended to.
C25_VadHysteresis ==
  [][/\ (~vad.open /\ vad'.open)
          => /\ LastAre(vad'.windows, OpenWindows, "speech")
             /\ vad'.start = Len(vad'.windows) - OpenWindows + 1
     /\ (vad.open /\ ~vad'.open)
          => /\ Len(vad'.chunks) = Len(vad.chunks) + 1
             /\ \/ LastAre(vad'.windows, CloseWindows, "silence")
                \/ Len(vad'.windows) - vad.start + 1 = MaxChunkWindows
     /\ vad'.chunks # vad.chunks => (vad.open /\ ~vad'.open)
     /\ Len(vad'.chunks) >= Len(vad.chunks)
     /\ \A k \in 1..Len(vad.chunks) : vad'.chunks[k] = vad.chunks[k]]_vars
\* An isolated speech window opened nothing; later N speech windows in a
\* row opened the first chunk, which M silence windows closed.
C25_Witness ==
  /\ op = "Window"
  /\ Len(vad.windows) >= 3
  /\ vad.windows[1] = "silence"
  /\ Isolated(vad.windows, 2)
  /\ Len(vad.chunks) >= 1
  /\ vad.chunks[1].start > 3
  /\ vad.chunks[1].reason = "silence"

\* ------------------------------------------- loops, timers, start attempts
PollStates == {"poll_await", "poll_sleep"}
\* C31: at no time do two pollTranscript loops have a get_transcript request
\* in flight, and a get_transcript request is never sent while another
\* loop is running.
C31_SinglePollingLoop ==
  /\ Cardinality({t \in Tasks : pc[t] = "poll_await"}) <= 1
  /\ sent = "get_transcript"
       => Cardinality({t \in Tasks : pc[t] \in PollStates}) <= 1

\* C32: while the session is recording with the recording flag set, exactly
\* one duration timer is active.
C32_OneTimerWhileRecording ==
  (processingState = "recording" /\ isRecording)
    => Cardinality(timerLive) = 1

\* C33: at most one handleStartRecording call awaits the sidecar at a time.
C33_SingleStartInFlight ==
  Cardinality({t \in Tasks : pc[t] \in StartAwaits}) <= 1

\* ---------------------------------------------------------------- confirm
\* The name typed for a label is not blank.
Named(label) ==
  /\ label \in DOMAIN speakerNames
  /\ speakerNames[label] \notin {"", " "}
EveryoneNamed ==
  /\ detectedSpeakers # <<>>
  /\ \A k \in 1..Len(detectedSpeakers) : Named(detectedSpeakers[k].label)
ModalHandlers ==
  {"handleConfirm", "handleSkip", "handleKeydown", "handleBackdropClick",
   "SetSpeakerName"}
\* C34: handleConfirm closes the modal and moves to summarizing exactly when
\* there is a detected speaker and every detected speaker has a non-blank
\* name; otherwise it leaves transcript, showLabelingModal and
\* processingState as they are. With no detected speaker the modal's
\* handlers close it only through skip.
C34_ConfirmNeedsEveryName ==
  [][/\ op' = "handleConfirm"
          => IF EveryoneNamed
               THEN /\ ~showLabelingModal'
                    /\ processingState' = "summarizing"
               ELSE UNCHANGED <<transcript, showLabelingModal,
                                processingState>>
     /\ (/\ detectedSpeakers = <<>>
         /\ op' \in ModalHandlers
         /\ showLabelingModal
         /\ ~showLabelingModal')
          => op' = "handleSkip"]_vars
\* Confirm was pressed in labeling with no detected speaker and did nothing.
C34_Witness ==
  /\ op = "handleConfirm"
  /\ detectedSpeakers = <<>>
  /\ showLabelingModal
  /\ processingState = "labeling"

\* ---------------------------------------------------------------- meeting
MeetingStatusOf(s) ==
  CASE s = "idle" -> "null"
    [] s = "recording" -> "recording"
    [] s \in {"diarizing", "labeling", "summarizing"} -> "processing"
    [] OTHER -> "completed"
\* C35: currentMeeting is null exactly in idle, and in every other state its
\* status is the one that state calls for.
C35_MeetingAgreesWithState ==
  currentMeeting.status = MeetingStatusOf(processingState)

\* ----------------------------------------------------------- summaries page
\* One mounted instance of SummariesPage. The sidecar's answers are inputs:
\* a speakers list, a list of summary ids, or a rejection.
SpeakerLists == {<<>>, <<1, 2>>}
SummaryIdLists == {<<>>, <<1>>, <<2>>}
NameOf(id) == IF id = 1 THEN "ann" ELSE "bob"
\* name.toLowerCase().includes(query.toLowerCase())
Includes(name, query) ==
  CASE query = "" -> TRUE
    [] query = "a" -> name = "ann"
    [] query = "b" -> name = "bob"
    [] OTHER -> FALSE
\* !query.trim()
Blank(query) == query \in {"", " "}
Ids(seq) == {seq[k] : k \in 1..Len(seq)}
EntryIds(entries) == {entries[k].id : k \in 1..Len(entries)}
\* raw.map(...): one entry per element of the response list.
Entries(ids, name) ==
  IF ids = <<>> THEN <<>>
  ELSE [k \in 1..Len(ids) |-> [id |-> ids[k], speakerName |-> name]]

isSearchMode == ~Blank(searchQuery) /\ selectedSpeakerId = NoSelection
showingDetail == selectedSummaryId # NoSelection /\ summaryDetail # NullDetail
\* The branch of the right panel the template renders.
Panel ==
  IF showingDetail THEN "detail"
  ELSE IF detailLoading THEN "loadingSummary"
  ELSE IF isSearchMode
    THEN IF loading THEN "searching"
         ELSE IF summaries = <<>> THEN "noResults" ELSE "results"
  ELSE IF selectedSpeakerId = NoSelection THEN "selectSpeaker"
  ELSE IF loading THEN "loadingSummaries"
  ELSE IF summaries = <<>> THEN "noSummaries" ELSE "list"

PendingCall(c, fn) == calls[c].state = "pending" /\ calls[c].fn = fn
Call(fn, arg, id) ==
  [calls EXCEPT ![nCalls + 1] =
     [fn |-> fn, arg |-> arg, id |-> id, state |-> "pending"]]
\* A call that has returned: its argument is dead.
Settle(c) ==
  [calls EXCEPT ![c] =
     [@ EXCEPT !.arg = "none", !.id = 0, !.state = "returned"]]
SessionAtRest ==
  /\ AppUnchanged
  /\ UNCHANGED workerVars

\* The state right after navigating from the fresh recording page to the
\* summaries page: the mount effect has called loadSpeakers.
SumInit ==
  /\ currentPage = "summaries"
  /\ sidecarConnected = FALSE
  /\ isRecording = FALSE
  /\ recordingDuration = 0
  /\ processingState = "idle"
  /\ currentMeeting = NullMeeting
  /\ transcript = <<>>
  /\ detectedSpeakers = <<>>
  /\ showLabelingModal = FALSE
  /\ nInst = 1
  /\ alive = [i \in Inst |-> i # 1]
  /\ timerInterval = [i \in Inst |-> NoTask]
  /\ labelingInterval = [i \in Inst |-> NoTask]
  /\ errorMessage = [i \in Inst |-> ""]
  /\ isStarting = [i \in Inst |-> FALSE]
  /\ speakerNames = [l \in {} |-> ""]
  /\ nTasks = 0
  /\ pc = [t \in Tasks |-> "free"]
  /\ owner = [t \in Tasks |-> 0]
  /\ timerLive = {}
  /\ waitLive = {}
  /\ settings = DefaultSettings
  /\ stopped = {}
  /\ sent = "none"
  /\ payload = NoPayload
  /\ received = NoResponse
  /\ op = "NavigateTo"
  /\ align = NoAlignment
  /\ vad = VadInit
  /\ searchQuery = ""
  /\ selectedSpeakerId = NoSelection
  /\ selectedSummaryId = NoSelection
  /\ speakerList = <<>>
  /\ summaries = <<>>
  /\ summaryDetail = NullDetail
  /\ loading = FALSE
  /\ detailLoading = FALSE
  /\ searchDebounceTimer = NoTimer
  /\ nCalls = 1
  /\ calls = [c \in CallIds |->
                IF c = 1
                  THEN [fn |-> "loadSpeakers", arg |-> "none", id |-> 0,
                        state |-> "pending"]
                  ELSE FreeCall]

\* loadSpeakers after its await.
LoadSpeakersOk(c, list) ==
  /\ PendingCall(c, "loadSpeakers")
  /\ speakerList' = list
  /\ calls' = Settle(c)
  /\ op' = "LoadSpeakersOk"
  /\ SessionAtRest
  /\ UNCHANGED <<searchQuery, selectedSpeakerId, selectedSummaryId, summaries,
                 summaryDetail, loading, detailLoading, searchDebounceTimer,
                 nCalls>>
LoadSpeakersFail(c) ==
  /\ PendingCall(c, "loadSpeakers")
  /\ speakerList' = <<>>
  /\ calls' = Settle(c)
  /\ op' = "LoadSpeakersFail"
  /\ SessionAtRest
  /\ UNCHANGED <<searchQuery, selectedSpeakerId, selectedSummaryId, summaries,
                 summaryDetail, loading, detailLoading, searchDebounceTimer,
                 nCalls>>

\* bind:value of the search input, and the search effect it re-runs: the
\* cleanup clears the pending timer, a non-blank query with no speaker
\* selected sets a new one.
SetSearchQuery(query) ==
  /\ query \in Queries
  /\ query # searchQuery
  /\ searchQuery' = query
  /\ searchDebounceTimer' =
       IF selectedSpeakerId = NoSelection /\ ~Blank(query)
         THEN query ELSE NoTimer
  /\ op' = "SetSearchQuery"
  /\ SessionAtRest
  /\ UNCHANGED <<selectedSpeakerId, selectedSummaryId, speakerList, summaries,
                 summaryDetail, loading, detailLoading, nCalls, calls>>

\* The debounce timer fires: searchAllSummaries(query) up to its await.
SearchTimerFires ==
  /\ searchDebounceTimer # NoTimer
  /\ searchDebounceTimer' = NoTimer
  /\ IF Blank(searchDebounceTimer)
       THEN /\ summaries' = <<>>
            /\ UNCHANGED <<loading, nCalls, calls>>
       ELSE /\ nCalls < MaxCalls
            /\ loading' = TRUE
            /\ nCalls' = nCalls + 1
            /\ calls' = Call("searchAllSummaries", searchDebounceTimer, 0)
            /\ UNCHANGED summaries
  /\ op' = "searchAllSummaries"
  /\ SessionAtRest
  /\ UNCHANGED <<searchQuery, selectedSpeakerId, selectedSummaryId,
                 speakerList, summaryDetail, detailLoading>>
\* searchAllSummaries / loadSummariesForSpeaker: catch and finally.
ListFail(c) ==
  /\ calls[c].state = "pending"
  /\ calls[c].fn \in {"searchAllSummaries", "loadSummariesForSpeaker"}
  /\ summaries' = <<>>
  /\ loading' = FALSE
  /\ calls' = Settle(c)
  /\ op' = "ListFail"
  /\ SessionAtRest
  /\ UNCHANGED <<searchQuery, selectedSpeakerId, selectedSummaryId,
                 speakerList, summaryDetail, detailLoading,
                 searchDebounceTimer, nCalls>>
\* searchAllSummaries / loadSummariesForSpeaker after the await: the mapped
\* response replaces the list, finally clears the flag.
ListOk(c, ids) ==
  /\ calls[c].state = "pending"
  /\ calls[c].fn \in {"searchAllSummaries", "loadSummariesForSpeaker"}
  /\ LET name == IF calls[c].fn = "loadSummariesForSpeaker"
                   THEN calls[c].arg ELSE ""
     IN summaries' = Entries(ids, name)
  /\ calls' = Settle(c)
  /\ loading' = FALSE
  /\ op' = "ListOk"
  /\ SessionAtRest
  /\ UNCHANGED <<searchQuery, selectedSpeakerId, selectedSummaryId,
                 speakerList, summaryDetail, detailLoading,
                 searchDebounceTimer, nCalls>>

\* selectSpeaker and the effects it re-runs: a changed selection clears the
\* detail view and calls loadSummariesForSpeaker; the search effect's cleanup
\* clears the timer.
selectSpeaker(id) ==
  /\ id \in Ids(speakerList)
  /\ Includes(NameOf(id), searchQuery)
  /\ selectedSpeakerId' = id
  /\ searchQuery' = ""
  /\ searchDebounceTimer' = NoTimer
  /\ IF id # selectedSpeakerId
       THEN /\ nCalls < MaxCalls
            /\ selectedSummaryId' = NoSelection
            /\ summaryDetail' = NullDetail
            /\ loading' = TRUE
            /\ nCalls' = nCalls + 1
            /\ calls' = Call("loadSummariesForSpeaker", NameOf(id), 0)
       ELSE /\ searchQuery # ""
            /\ UNCHANGED <<selectedSummaryId, summaryDetail, loading, nCalls,
                           calls>>
  /\ op' = "selectSpeaker"
  /\ SessionAtRest
  /\ UNCHANGED <<speakerList, summaries, detailLoading>>

\* The Clear button of the speaker's list, and the search effect re-run by
\* the changed selection.
deselectSpeaker ==
  /\ Panel = "list"
  /\ selectedSpeakerId' = NoSelection
  /\ selectedSummaryId' = NoSelection
  /\ summaryDetail' = NullDetail
  /\ summaries' = <<>>
  /\ searchDebounceTimer' = IF Blank(searchQuery) THEN NoTimer ELSE searchQuery
  /\ op' = "deselectSpeaker"
  /\ SessionAtRest
  /\ UNCHANGED <<searchQuery, speakerList, loading, detailLoading, nCalls,
                 calls>>

\* A summary card is clicked: selectSummary, loadSummaryDetail to its await.
selectSummary(id) ==
  /\ Panel \in {"results", "list"}
  /\ id \in EntryIds(summaries)
  /\ nCalls < MaxCalls
  /\ selectedSummaryId' = id
  /\ detailLoading' = TRUE
  /\ nCalls' = nCalls + 1
  /\ calls' = Call("loadSummaryDetail", "none", id)
  /\ op' = "selectSummary"
  /\ SessionAtRest
  /\ UNCHANGED <<searchQuery, selectedSpeakerId, speakerList, summaries,
                 summaryDetail, loading, searchDebounceTimer>>
\* loadSummaryDetail after its await.
DetailOk(c) ==
  /\ PendingCall(c, "loadSummaryDetail")
  /\ summaryDetail' = [id |-> calls[c].id]
  /\ detailLoading' = FALSE
  /\ calls' = Settle(c)
  /\ op' = "DetailOk"
  /\ SessionAtRest
  /\ UNCHANGED <<searchQuery, selectedSpeakerId, selectedSummaryId,
                 speakerList, summaries, loading, searchDebounceTimer, nCalls>>
DetailFail(c) ==
  /\ PendingCall(c, "loadSummaryDetail")
  /\ summaryDetail' = NullDetail
  /\ detailLoading' = FALSE
  /\ calls' = Settle(c)
  /\ op' = "DetailFail"
  /\ SessionAtRest
  /\ UNCHANGED <<searchQuery, selectedSpeakerId, selectedSummaryId,
                 speakerList, summaries, loading, searchDebounceTimer, nCalls>>
backToList ==
  /\ Panel = "detail"
  /\ selectedSummaryId' = NoSelection
  /\ summaryDetail' = NullDetail
  /\ op' = "backToList"
  /\ SessionAtRest
  /\ UNCHANGED <<searchQuery, selectedSpeakerId, speakerList, summaries,
                 loading, detailLoading, searchDebounceTimer, nCalls, calls>>

SumNext ==
  \/ \E c \in CallIds, list \in SpeakerLists : LoadSpeakersOk(c, list)
  \/ \E c \in CallIds : LoadSpeakersFail(c)
  \/ \E query \in Queries : SetSearchQuery(query)
  \/ SearchTimerFires
  \/ \E c \in CallIds, ids \in SummaryIdLists : ListOk(c, ids)
  \/ \E c \in CallIds : ListFail(c)
  \/ \E id \in SpeakerIds : selectSpeaker(id)
  \/ deselectSpeaker
  \/ \E id \in SummaryIds : selectSummary(id)
  \/ \E c \in CallIds : DetailOk(c)
  \/ \E c \in CallIds : DetailFail(c)
  \/ backToList
SumSpec == SumInit /\ [][SumNext]_vars

ListFns == {"searchAllSummaries", "loadSummariesForSpeaker"}
InFlight(fns) == {c \in CallIds : calls[c].state = "pending" /\ calls[c].fn \in fns}
\* Call c returns in this step.
Returns(c) == calls[c].state = "pending" /\ calls'[c].state = "returned"
\* C36: a summaries or search call that returns after a later-issued one has
\* already returned leaves `summaries` as the later call set it, so with no
\* such call in flight the list is the latest query's result.
C36_LatestQueryWins ==
  [][\A c \in CallIds :
       (/\ calls[c].fn \in ListFns
        /\ Returns(c)
        /\ \E d \in CallIds :
             d > c /\ calls[d].fn \in ListFns /\ calls[d].state = "returned")
         => summaries' = summaries]_vars

\* C37: loading is true exactly while a summaries or search call is in
\* flight, detailLoading exactly while a detail call is in flight.
C37_LoadingFlagsTrackRequests ==
  /\ loading <=> InFlight(ListFns) # {}
  /\ detailLoading <=> InFlight({"loadSummaryDetail"}) # {}

\* C38: whenever the detail view is shown, the detail is the one requested
\* for the selected summary id.
C38_DetailMatchesSelection ==
  showingDetail => summaryDetail.id = selectedSummaryId

\* C39: a rejected query resets its result and leaves its loading flag
\* false; a search query made blank sends and schedules no request and
\* empties the results.
C39_FailedQueryResets ==
  [][/\ op' = "LoadSpeakersFail" => speakerList' = <<>>
     /\ op' = "ListFail" => (summaries' = <<>> /\ ~loading')
     /\ op' = "DetailFail" => (summaryDetail' = NullDetail /\ ~detailLoading')
     /\ (/\ op' = "SetSearchQuery"
         /\ selectedSpeakerId = NoSelection
         /\ ~Blank(searchQuery)
         /\ Blank(searchQuery'))
          => /\ calls' = calls
             /\ searchDebounceTimer' = NoTimer
             /\ summaries' = <<>>]_vars
====
